---- MODULE Spec2Model ----
(***************************************************************************)
(* CozyChat matchmaking core: the match queue, the compatibility scorer    *)
(* and its cache, create_or_join_session_atomic, cleanup_old_sessions and  *)
(* the close-session / update-activity handlers, as a state machine over   *)
(* the database tables.                                                    *)
(*                                                                         *)
(* Every create_or_join_session_atomic call is one PostgreSQL transaction  *)
(* at READ COMMITTED: each statement reads the rows committed when it      *)
(* starts plus the transaction's own writes, NOW() is the transaction's    *)
(* start time, a written or FOR UPDATE-selected row stays locked until the *)
(* transaction ends, an UPDATE waits for a locked row, and SKIP LOCKED     *)
(* passes over it.  The transaction's writes are kept in txn[u] and reach  *)
(* the tables when it commits.  Time is counted in minutes.                *)
(***************************************************************************)
EXTENDS Integers, Sequences, FiniteSets, TLC

\* ------------------------------------------------------------------ bounds
MaxUsers == 3
MaxSessions == 4
MaxSessionsAll == 2
MaxTicks == 1
\* Minutes the rate limiter is watched for.
MaxMinutes == 3
\* Reconnects the browser is watched for.
MaxReconnects == 9

\* --------------------------------------------------------------- constants
QueueTTL == 5
InactiveAfter == 5
CacheTTL == 60
UserRetention == 1440
SessionRetention == 2880
ExactScore == 10
CategoryScore == 5
OtherScore == 1
CacheMiss == -1
Null == 0
NoTime == -1
\* send-message.ts, with RATE_LIMIT_WINDOW (60 * 1000 ms) in minutes.
MAX_MESSAGES_PER_MINUTE == 30
RATE_LIMIT_WINDOW == 1
\* connectionSlice's initialState.
maxReconnectAttempts == 5

\* The clock advances in steps of one queue time-to-live.
ClockStep == QueueTTL

Users == 1..MaxUsers

\* interest_categories rows (a sample of the table) and a tag with no row.
interest_categories ==
    [gaming |-> "entertainment", music |-> "entertainment", travel |-> "lifestyle"]

InterestChoices == { <<"gaming", "music">>, <<"knitting">> }

VARIABLES
    now,              \* wall clock, minutes
    anonymous_users,  \* id -> [is_active, last_seen, interests, created_at]
    banned_users,     \* set of [user_id, expires_at, created_at]
    match_queue,      \* set of [id, user_id, interests, created_at, expires_at, matched_at, status]
    match_cache,      \* set of [user1_id, user2_id, compatibility_score, expires_at]
    chat_sessions,    \* set of [id, user1_id, user2_id, status, started_at, ended_at, created_at]
    messages,         \* set of [id, session_id, sender_id, content]
    ids,              \* [queue, session, message]: rows ever inserted per table
    txn,              \* user -> the user's create_or_join_session_atomic call in flight
    result,           \* user -> what the user's last create_or_join_session_atomic call returned
    response,         \* what the last close-session request was answered
    request,          \* user -> the user's close-session or send-message request in flight
    messageRateLimit, \* sender -> [count, resetTime] of send-message.ts, where one exists
    connection        \* the browser's connection: store, timer and the closure in use

vars == << now, anonymous_users, banned_users, match_queue, match_cache,
           chat_sessions, messages, ids, txn, result, response,
           request, messageRateLimit, connection >>

\* What lives outside the database: the API process and the browser.
memory == << request, messageRateLimit, connection >>

tables == << anonymous_users, banned_users, match_queue, match_cache,
             chat_sessions, messages, ids >>

\* ------------------------------------------------------------------ scorer

\* The table looked up for (interest1, interest2) only, and populated with a
\* row whenever the first tag is known.
CompatRowOneSided(i1, i2) ==
    IF i1 \notin DOMAIN interest_categories THEN 0
    ELSE IF i1 = i2 THEN ExactScore
    ELSE IF i2 \in DOMAIN interest_categories
            /\ interest_categories[i1] = interest_categories[i2] THEN CategoryScore
    ELSE OtherScore

\* The table populated with the exact matches only.
CompatRowExactOnly(i1, i2) ==
    IF i1 \in DOMAIN interest_categories /\ i1 = i2 THEN ExactScore ELSE 0

\* The score of one row of interest_compatibility; a pair with no row (a tag
\* that was not in the table's sources when the migration populated it)
\* counts COALESCE(score, 0).
CompatRow(i1, i2) ==
    IF i1 \notin DOMAIN interest_categories \/ i2 \notin DOMAIN interest_categories
    THEN 0
    ELSE IF i1 = i2 THEN ExactScore
    ELSE IF interest_categories[i1] = interest_categories[i2] THEN CategoryScore
    ELSE OtherScore

RECURSIVE SumRow(_, _, _)
SumRow(interest1, user2_interests, j) ==
    IF j > Len(user2_interests) THEN 0
    ELSE CompatRow(interest1, user2_interests[j]) + SumRow(interest1, user2_interests, j + 1)

RECURSIVE SumAll(_, _, _)
SumAll(user1_interests, user2_interests, i) ==
    IF i > Len(user1_interests) THEN 0
    ELSE SumRow(user1_interests[i], user2_interests, 1)
         + SumAll(user1_interests, user2_interests, i + 1)

calculate_compatibility_score(user1_interests, user2_interests) ==
    IF Len(user1_interests) = 0 \/ Len(user2_interests) = 0 THEN 0
    ELSE SumAll(user1_interests, user2_interests, 1)

\* The lookup matching the pair in the order given only.
CacheRowsOrdered(user1_id_param, user2_id_param, t) ==
    { c \in match_cache :
        /\ c.user1_id = user1_id_param /\ c.user2_id = user2_id_param
        /\ c.expires_at > t }

\* The lookup without its expires_at > NOW() condition.
CacheRowsAnyExpiry(user1_id_param, user2_id_param, t) ==
    { c \in match_cache :
        \/ (c.user1_id = user1_id_param /\ c.user2_id = user2_id_param)
        \/ (c.user1_id = user2_id_param /\ c.user2_id = user1_id_param) }

\* The rows a cache lookup for the pair can return at time t.
CacheRows(user1_id_param, user2_id_param, t) ==
    { c \in match_cache :
        /\ \/ (c.user1_id = user1_id_param /\ c.user2_id = user2_id_param)
           \/ (c.user1_id = user2_id_param /\ c.user2_id = user1_id_param)
        /\ c.expires_at > t }

\* Every value get_cached_compatibility_score can return: the score of any
\* matching row (SELECT INTO takes the first row found), or -1 on a miss.
get_cached_compatibility_score(user1_id_param, user2_id_param, t) ==
    IF CacheRows(user1_id_param, user2_id_param, t) = {} THEN {CacheMiss}
    ELSE { c.compatibility_score : c \in CacheRows(user1_id_param, user2_id_param, t) }

\* cache_compatibility_score: INSERT ... ON CONFLICT (user1_id, user2_id) DO UPDATE.
cache_compatibility_score(cache, user1_id_param, user2_id_param, score, t) ==
    { c \in cache : ~(c.user1_id = user1_id_param /\ c.user2_id = user2_id_param) }
    \cup { [user1_id |-> user1_id_param, user2_id |-> user2_id_param,
            compatibility_score |-> score, expires_at |-> t + CacheTTL] }

\* --------------------------------------------------------------- predicates

IsBanned(u, t) ==
    \E bu \in banned_users :
        bu.user_id = u /\ (bu.expires_at = NoTime \/ bu.expires_at > t)

InFlight(u) == txn[u].pc # "idle"

\* Row locks on match_queue rows held by u's transaction.
LockedBy(qid, u) == InFlight(u) /\ qid \in txn[u].locks

LockedByOther(qid, u) == \E v \in Users \ {u} : LockedBy(qid, v)

IdleTxn == [pc |-> "idle", now |-> 0, interests |-> <<>>, locks |-> {},
            expired |-> {}, picked |-> Null, matched |-> Null, cache |-> {}]

NoResult == [action |-> "none", session_id |-> Null, user |-> Null, entry |-> Null]

Returned(a, sid, m, qid) == [action |-> a, session_id |-> sid, user |-> m, entry |-> qid]

\* A close-session answer: the HTTP status, the request's fields, and whether
\* the request went on to end the session.
Responded(status, session_id, user_id, closed) ==
    [status |-> status, session_id |-> session_id, user_id |-> user_id, closed |-> closed]

NoResponse == Responded(Null, Null, Null, FALSE)

\* A close-session or send-message request between its SELECT of the session
\* and its writes: the handler's step, the row it read, and the HTTP status
\* of the user's last answered request.
Request(pc, session, status) ==
    [pc |-> pc, session_id |-> session.id, session_status |-> session.status,
     user1_id |-> session.user1_id, user2_id |-> session.user2_id, status |-> status]

NoSession == [id |-> Null, status |-> "none", user1_id |-> Null, user2_id |-> Null]

NoRequest == Request("idle", NoSession, Null)

\* connectionSlice's initialState, no reconnect timer, and no connect()
\* called yet; closure is the metrics.reconnectAttempts the connect() in use
\* was created with.
NoConnection ==
    [status |-> "disconnected", reconnectAttempts |-> 0, error |-> "none",
     timer |-> FALSE, closure |-> 0]

MemoryInit ==
    /\ request = [u \in Users |-> NoRequest]
    /\ messageRateLimit = [u \in {} |-> Null]
    /\ connection = NoConnection


\* -------------------------------------------------------------------- Init

BanChoices ==
    { {}, {[user_id |-> MaxUsers, expires_at |-> NoTime, created_at |-> 0]},
          {[user_id |-> MaxUsers, expires_at |-> ClockStep, created_at |-> 0]} }

Init ==
    /\ now = 0
    /\ anonymous_users = [u \in Users |->
            [is_active |-> TRUE, last_seen |-> 0, interests |-> <<>>, created_at |-> 0]]
    /\ banned_users \in BanChoices
    /\ match_queue = {}
    /\ match_cache = {}
    /\ chat_sessions = {}
    /\ messages = {}
    /\ ids = [queue |-> 0, session |-> 0, message |-> 0]
    /\ txn = [u \in Users |-> IdleTxn]
    /\ result = [u \in Users |-> NoResult]
    /\ response = NoResponse
    /\ MemoryInit

\* ------------------------------------------- create_or_join_session_atomic
\* In the operators below t is the calling transaction's record (txn[u]).

\* Lines 295-297: the rows the lazy expiry updates.
ExpireTargets(t) ==
    { e \in match_queue : e.expires_at <= t.now /\ e.status = "waiting" }

\* Lines 304-306: the rows marked matched (rows the transaction itself
\* expired are no longer 'waiting' to it).
JoinTargets(u, t) ==
    { e \in match_queue :
        /\ e.user_id \in {u, t.matched}
        /\ e.status = "waiting"
        /\ e.id \notin t.expired }

\* The rows the UPDATE the transaction is at has to lock.
PendingRows(u) ==
    IF txn[u].pc = "expire" THEN ExpireTargets(txn[u])
    ELSE IF txn[u].pc = "join" THEN JoinTargets(u, txn[u])
    ELSE {}

\* An UPDATE waits while a row it has to write is locked by another transaction.
Blocked(u) == \E e \in PendingRows(u) : LockedByOther(e.id, u)

\* The candidate query without SKIP LOCKED.
CandidatesNoSkipLocked(u, t) ==
    { e \in match_queue :
        /\ e.user_id # u
        /\ e.status = "waiting"
        /\ e.id \notin t.expired
        /\ e.expires_at > t.now
        /\ ~IsBanned(e.user_id, t.now) }

\* The candidate query reading every committed 'waiting' row, whatever its
\* expires_at.
CandidatesAnyExpiry(u, t) ==
    { e \in match_queue :
        /\ e.user_id # u
        /\ e.status = "waiting"
        /\ ~IsBanned(e.user_id, t.now)
        /\ ~LockedByOther(e.id, u) }

\* The candidate query without mq.user_id != user_id_param.
CandidatesWithSelf(u, t) ==
    { e \in match_queue :
        /\ e.status = "waiting"
        /\ e.id \notin t.expired
        /\ e.expires_at > t.now
        /\ ~IsBanned(e.user_id, t.now)
        /\ ~LockedByOther(e.id, u) }

\* The candidate query without its NOT EXISTS (... banned_users ...) condition.
CandidatesIgnoringBans(u, t) ==
    { e \in match_queue :
        /\ e.user_id # u
        /\ e.status = "waiting"
        /\ e.id \notin t.expired
        /\ e.expires_at > t.now
        /\ ~LockedByOther(e.id, u) }

\* Lines 232-241: the rows find_best_match_from_queue can return (a row the
\* transaction itself expired is no longer 'waiting' to it); a row locked by
\* another transaction is skipped (FOR UPDATE SKIP LOCKED).
Candidates(u, t) ==
    { e \in match_queue :
        /\ e.user_id # u
        /\ e.status = "waiting"
        /\ e.id \notin t.expired
        /\ e.expires_at > t.now
        /\ ~IsBanned(e.user_id, t.now)
        /\ ~LockedByOther(e.id, u) }

\* Lines 244-247: COALESCE(get_cached_compatibility_score(..), calculate_..).
\* get_cached_compatibility_score returns -1, never NULL, on a miss, so the
\* COALESCE always yields its first argument.
OrderKeys(u, t, e) == get_cached_compatibility_score(u, e.user_id, t.now)

\* Lines 242-249: e can be the first row of the ordering (score descending,
\* created_at ascending; rows equal in both come in any order).
IsFirst(u, t, e) ==
    \E ke \in OrderKeys(u, t, e) :
        \A f \in Candidates(u, t) \ {e} :
            \E kf \in OrderKeys(u, t, f) :
                ke > kf \/ (ke = kf /\ e.created_at <= f.created_at)

\* Line 257: (SELECT interests FROM match_queue WHERE user_id = best_match_id)
QueueRowsOf(m) == { e \in match_queue : e.user_id = m }

\* Lines 252-260 for the selected row e and the value the cache lookup gave:
\* on a miss the score is calculated and cached; the scalar subquery of
\* line 257 raises an error when it finds more than one row.
Selected(u, t, e, cached_score) ==
    LET locked == [t EXCEPT !.pc = "join", !.picked = e.id, !.matched = e.user_id,
                            !.locks = @ \cup {e.id}]
    IN IF cached_score # CacheMiss THEN locked
       ELSE IF Cardinality(QueueRowsOf(e.user_id)) > 1 THEN [t EXCEPT !.pc = "error"]
       ELSE [locked EXCEPT !.cache =
                { [user2_id |-> e.user_id,
                   score |-> calculate_compatibility_score(t.interests, e.interests)] }]

\* Lines 222-264: every way the call can leave find_best_match_from_queue.
find_best_match_from_queue(u, t) ==
    IF Candidates(u, t) = {} THEN { [t EXCEPT !.pc = "create"] }
    ELSE UNION { { Selected(u, t, e, cached_score) :
                     cached_score \in get_cached_compatibility_score(u, e.user_id, t.now) } :
                 e \in { c \in Candidates(u, t) : IsFirst(u, t, c) } }

\* An error raised inside the function rolls the transaction back.
Rollback(u, why) ==
    /\ txn' = [txn EXCEPT ![u] = IdleTxn]
    /\ result' = [result EXCEPT ![u] = Returned(why, Null, Null, Null)]
    /\ UNCHANGED << now, response, memory, tables >>

\* Lines 295-300: the lazy expiry locks the rows it expires, then the scan.
ExpireAndScan(u, t) ==
    LET t1 == [t EXCEPT !.expired = { e.id : e \in ExpireTargets(t) },
                        !.locks = @ \cup { e.id : e \in ExpireTargets(t) }]
    IN \E t2 \in find_best_match_from_queue(u, t1) :
          IF t2.pc = "error" THEN Rollback(u, "Error")
          ELSE /\ txn' = [txn EXCEPT ![u] = t2]
               /\ UNCHANGED << now, response, memory, tables, result >>

\* Calls begun and not yet returned, plus sessions ever inserted.
Started == ids.session + Cardinality({u \in Users : InFlight(u)})

\* The call with the UPDATE of the caller's row ahead of the ban check, and
\* the ban reported without undoing it.
BeginRequestLateBanCheck(u, user_interests, cap) ==
    /\ ~InFlight(u)
    /\ u \in DOMAIN anonymous_users
    /\ IF IsBanned(u, now)
       THEN /\ result' = [result EXCEPT ![u] = Returned("Banned", Null, Null, Null)]
            /\ anonymous_users' = [anonymous_users EXCEPT ![u] =
                   [@ EXCEPT !.is_active = TRUE, !.last_seen = now,
                             !.interests = user_interests]]
            /\ UNCHANGED << now, response, memory, banned_users, match_queue, match_cache,
                            chat_sessions, messages, ids, txn >>
       ELSE /\ Started < cap
            /\ LET t == [IdleTxn EXCEPT !.pc = "expire", !.now = now,
                                        !.interests = user_interests]
               IN IF \E e \in ExpireTargets(t) : LockedByOther(e.id, u)
                  THEN /\ txn' = [txn EXCEPT ![u] = t]
                       /\ UNCHANGED << now, response, memory, tables, result >>
                  ELSE ExpireAndScan(u, t)

\* Lines 280-300: the ban check (RAISE EXCEPTION ends the call), the UPDATE
\* of the caller's row (held in the transaction until it commits), the lazy
\* expiry and the scan.  The call stops at the lazy expiry while a row it has
\* to expire is locked by another transaction.
BeginRequest(u, user_interests, cap) ==
    /\ ~InFlight(u)
    /\ u \in DOMAIN anonymous_users
    /\ IF IsBanned(u, now)
       THEN /\ result' = [result EXCEPT ![u] = Returned("Banned", Null, Null, Null)]
            /\ UNCHANGED << now, response, memory, tables, txn >>
       ELSE /\ Started < cap
            /\ LET t == [IdleTxn EXCEPT !.pc = "expire", !.now = now,
                                        !.interests = user_interests]
               IN IF \E e \in ExpireTargets(t) : LockedByOther(e.id, u)
                  THEN /\ txn' = [txn EXCEPT ![u] = t]
                       /\ UNCHANGED << now, response, memory, tables, result >>
                  ELSE ExpireAndScan(u, t)

\* The lazy expiry goes on once the rows it waited for are free.
LazyExpire(u) ==
    /\ txn[u].pc = "expire"
    /\ ~Blocked(u)
    /\ ExpireAndScan(u, txn[u])

\* While it waits, an UPDATE keeps the locks of the rows it already wrote.
PartialLock(u) ==
    /\ Blocked(u)
    /\ \E e \in PendingRows(u) :
          /\ ~LockedByOther(e.id, u)
          /\ e.id \notin txn[u].locks
          /\ txn' = [txn EXCEPT ![u].locks = @ \cup {e.id}]
    /\ UNCHANGED << now, response, memory, tables, result >>

\* What every commit of the call writes: lines 290-292 and 295-297, and the
\* cache row of line 258.
UsersAtCommit(u) ==
    [anonymous_users EXCEPT ![u] = [@ EXCEPT !.is_active = TRUE,
                                             !.last_seen = txn[u].now,
                                             !.interests = txn[u].interests]]

\* The commit without the UPDATE of lines 304-306.
QueueAtCommitNoMark(u, matched_rows) ==
    { IF e.id \in txn[u].expired THEN [e EXCEPT !.status = "expired"] ELSE e :
        e \in match_queue }

\* The commit marking the matched user's rows only.
QueueAtCommitMatchedOnly(u, matched_rows) ==
    { IF e.id \in txn[u].expired THEN [e EXCEPT !.status = "expired"]
      ELSE IF e \in matched_rows /\ e.user_id = txn[u].matched
           THEN [e EXCEPT !.status = "matched", !.matched_at = txn[u].now]
      ELSE e : e \in match_queue }

QueueAtCommit(u, matched_rows) ==
    { IF e.id \in txn[u].expired THEN [e EXCEPT !.status = "expired"]
      ELSE IF e \in matched_rows
           THEN [e EXCEPT !.status = "matched", !.matched_at = txn[u].now]
      ELSE e : e \in match_queue }

RECURSIVE CacheAtCommit(_, _)
CacheAtCommit(u, pending) ==
    IF pending = {} THEN match_cache
    ELSE LET w == CHOOSE x \in pending : TRUE
         IN cache_compatibility_score(CacheAtCommit(u, pending \ {w}), u, w.user2_id,
                                      w.score, txn[u].now)

Message(n, sid, sender, text, score) ==
    [id |-> n, session_id |-> sid, sender_id |-> sender, message_type |-> "system",
     content |-> text, score |-> score]

\* The join branch inserting the score message whatever the score.
JoinScoreMessageAlways(u) ==
    /\ txn[u].pc = "join"
    /\ ~Blocked(u)
    /\ LET matched_user_id == txn[u].matched
           waiting_session_id == ids.session + 1
           compatibility_score ==
               calculate_compatibility_score(txn[u].interests,
                                             anonymous_users[matched_user_id].interests)
       IN /\ anonymous_users' = UsersAtCommit(u)
          /\ match_queue' = QueueAtCommit(u, JoinTargets(u, txn[u]))
          /\ match_cache' = CacheAtCommit(u, txn[u].cache)
          /\ chat_sessions' = chat_sessions \cup
                { [id |-> waiting_session_id, user1_id |-> matched_user_id,
                   user2_id |-> u, status |-> "active", started_at |-> txn[u].now,
                   ended_at |-> NoTime, created_at |-> txn[u].now] }
          /\ messages' = messages
                \cup { Message(ids.message + 1, waiting_session_id, u,
                               "Connected to chat!", NoTime),
                       Message(ids.message + 2, waiting_session_id, u,
                               "Compatibility score: ", compatibility_score) }
          /\ ids' = [ids EXCEPT !.session = @ + 1, !.message = @ + 2]
          /\ result' = [result EXCEPT ![u] =
                Returned("joined", waiting_session_id, matched_user_id, txn[u].picked)]
    /\ txn' = [txn EXCEPT ![u] = IdleTxn]
    /\ UNCHANGED << now, response, memory, banned_users >>

\* Lines 302-329: mark the rows matched, insert the active session and its
\* system messages, return 'joined'; the transaction commits.
Join(u) ==
    /\ txn[u].pc = "join"
    /\ ~Blocked(u)
    /\ LET matched_user_id == txn[u].matched
           waiting_session_id == ids.session + 1
           compatibility_score ==
               calculate_compatibility_score(txn[u].interests,
                                             anonymous_users[matched_user_id].interests)
       IN /\ anonymous_users' = UsersAtCommit(u)
          /\ match_queue' = QueueAtCommit(u, JoinTargets(u, txn[u]))
          /\ match_cache' = CacheAtCommit(u, txn[u].cache)
          /\ chat_sessions' = chat_sessions \cup
                { [id |-> waiting_session_id, user1_id |-> matched_user_id,
                   user2_id |-> u, status |-> "active", started_at |-> txn[u].now,
                   ended_at |-> NoTime, created_at |-> txn[u].now] }
          /\ messages' = messages
                \cup { Message(ids.message + 1, waiting_session_id, u,
                               "Connected to chat!", NoTime) }
                \cup ( IF compatibility_score > 0
                       THEN { Message(ids.message + 2, waiting_session_id, u,
                                      "Compatibility score: ", compatibility_score) }
                       ELSE {} )
          /\ ids' = [ids EXCEPT !.session = @ + 1,
                                !.message = @ + (IF compatibility_score > 0 THEN 2 ELSE 1)]
          /\ result' = [result EXCEPT ![u] =
                Returned("joined", waiting_session_id, matched_user_id, txn[u].picked)]
    /\ txn' = [txn EXCEPT ![u] = IdleTxn]
    /\ UNCHANGED << now, response, memory, banned_users >>

\* The no-match branch without the INSERT INTO match_queue.
CreateNoQueueRow(u) ==
    /\ txn[u].pc = "create"
    /\ anonymous_users' = UsersAtCommit(u)
    /\ match_queue' = QueueAtCommit(u, {})
    /\ chat_sessions' = chat_sessions \cup
          { [id |-> ids.session + 1, user1_id |-> u, user2_id |-> Null,
             status |-> "waiting", started_at |-> NoTime, ended_at |-> NoTime,
             created_at |-> txn[u].now] }
    /\ ids' = [ids EXCEPT !.session = @ + 1]
    /\ result' = [result EXCEPT ![u] = Returned("created", ids.session + 1, Null, Null)]
    /\ txn' = [txn EXCEPT ![u] = IdleTxn]
    /\ UNCHANGED << now, response, memory, banned_users, match_cache, messages >>

\* Lines 330-342: insert the caller's queue row and a waiting session,
\* return 'created'; the transaction commits.
Create(u) ==
    /\ txn[u].pc = "create"
    /\ anonymous_users' = UsersAtCommit(u)
    /\ match_queue' = QueueAtCommit(u, {}) \cup
          { [id |-> ids.queue + 1, user_id |-> u, interests |-> txn[u].interests,
             created_at |-> txn[u].now, expires_at |-> txn[u].now + QueueTTL,
             matched_at |-> NoTime, status |-> "waiting"] }
    /\ chat_sessions' = chat_sessions \cup
          { [id |-> ids.session + 1, user1_id |-> u, user2_id |-> Null,
             status |-> "waiting", started_at |-> NoTime, ended_at |-> NoTime,
             created_at |-> txn[u].now] }
    /\ ids' = [ids EXCEPT !.queue = @ + 1, !.session = @ + 1]
    /\ result' = [result EXCEPT ![u] = Returned("created", ids.session + 1, Null, Null)]
    /\ txn' = [txn EXCEPT ![u] = IdleTxn]
    /\ UNCHANGED << now, response, memory, banned_users, match_cache, messages >>

\* u waits for a row lock that v holds.
WaitsFor(u, v) == u # v /\ \E e \in PendingRows(u) : LockedBy(e.id, v)

RECURSIVE WaitPath(_, _, _)
WaitPath(u, v, n) ==
    \/ WaitsFor(u, v)
    \/ n > 0 /\ \E w \in Users : WaitsFor(u, w) /\ WaitPath(w, v, n - 1)

\* PostgreSQL ends a lock-wait cycle by aborting one of its transactions.
DeadlockAbort(u) ==
    /\ Blocked(u)
    /\ WaitPath(u, u, MaxUsers)
    /\ Rollback(u, "Error")

\* ---------------------------------------------------------- update-activity

\* The UPDATE of the user's row; it waits while the user's own matching call
\* holds the row.
Heartbeat(u) ==
    /\ u \in DOMAIN anonymous_users
    /\ ~InFlight(u)
    /\ anonymous_users' = [anonymous_users EXCEPT ![u] =
            [@ EXCEPT !.last_seen = now, !.is_active = TRUE]]
    /\ UNCHANGED << now, response, memory, banned_users, match_queue, match_cache, chat_sessions,
                    messages, ids, txn, result >>

\* ------------------------------------------------------------ close-session

Participants(s) == {s.user1_id, s.user2_id} \ {Null}

\* Lines 45-58 and 61-65 of close-session.ts: an answer that changes nothing.
Answer(status, session_id, user_id) ==
    /\ response' = Responded(status, session_id, user_id, FALSE)
    /\ UNCHANGED << now, tables, txn, result, memory >>

\* Lines 67-117: the session is ended, its participants are marked inactive
\* (the UPDATE waits while a participant's matching call holds the row) and,
\* with a second participant, a system message is inserted.
EndSession(session, user_id) ==
    /\ \A v \in Participants(session) : ~InFlight(v)
    /\ chat_sessions' = (chat_sessions \ {session}) \cup
          { [session EXCEPT !.status = "ended", !.ended_at = now] }
    /\ anonymous_users' =
          [v \in DOMAIN anonymous_users |->
              IF v \in Participants(session)
              THEN [anonymous_users[v] EXCEPT !.is_active = FALSE, !.last_seen = now]
              ELSE anonymous_users[v]]
    /\ IF session.user2_id # Null
       THEN /\ messages' = messages \cup
                  { Message(ids.message + 1, session.id, user_id,
                            "Chat ended by other user", NoTime) }
            /\ ids' = [ids EXCEPT !.message = @ + 1]
       ELSE UNCHANGED << messages, ids >>
    /\ response' = Responded(200, session.id, user_id, TRUE)
    /\ UNCHANGED << now, banned_users, match_queue, match_cache, txn, result, memory >>

\* The handler ending an ended session once more.
CloseSessionNoEndedCheck(session_id, user_id) ==
    LET found == { s \in chat_sessions : s.id = session_id }
    IN IF found = {} THEN Answer(404, session_id, user_id)
       ELSE LET session == CHOOSE s \in found : TRUE
            IN IF session.user1_id # user_id /\ session.user2_id # user_id
               THEN Answer(403, session_id, user_id)
               ELSE EndSession(session, user_id)

\* The handler without the check of lines 53-58.
CloseSessionNoAuth(session_id, user_id) ==
    LET found == { s \in chat_sessions : s.id = session_id }
    IN IF found = {} THEN Answer(404, session_id, user_id)
       ELSE LET session == CHOOSE s \in found : TRUE
            IN IF session.status = "ended" THEN Answer(200, session_id, user_id)
               ELSE EndSession(session, user_id)

\* Lines 38-119 of close-session.ts: 404 for no such session, 403 for a
\* caller who is neither participant, 200 and no change for an ended session,
\* otherwise the session is ended.
CloseSession(session_id, user_id) ==
    LET found == { s \in chat_sessions : s.id = session_id }
    IN IF found = {} THEN Answer(404, session_id, user_id)
       ELSE LET session == CHOOSE s \in found : TRUE
            IN IF session.user1_id # user_id /\ session.user2_id # user_id
               THEN Answer(403, session_id, user_id)
               ELSE IF session.status = "ended" THEN Answer(200, session_id, user_id)
               ELSE EndSession(session, user_id)

\* ------------------------------------- close-session, one request at a time

\* CloseSession above is the handler running alone.  The handler is not a
\* transaction: its SELECT and its writes are separate requests to the
\* database, and another handler's or the sweeper's requests come between
\* them.  CloseRequest is lines 38-65: the SELECT and the checks on the row it
\* returned.
CloseRequest(session_id, user_id) ==
    /\ request[user_id].pc = "idle"
    /\ LET found == { s \in chat_sessions : s.id = session_id }
       IN IF found = {}
          THEN request' = [request EXCEPT ![user_id] = Request("idle", NoSession, 404)]
          ELSE LET session == CHOOSE s \in found : TRUE
               IN IF session.user1_id # user_id /\ session.user2_id # user_id
                  THEN request' = [request EXCEPT ![user_id] =
                                      Request("idle", NoSession, 403)]
                  ELSE IF session.status = "ended"
                  THEN request' = [request EXCEPT ![user_id] =
                                      Request("idle", NoSession, 200)]
                  ELSE request' = [request EXCEPT ![user_id] =
                                      Request("close", session, Null)]
    /\ UNCHANGED << now, tables, txn, result, response, messageRateLimit, connection >>

\* Lines 67-117: the UPDATE of the session by its id alone, the UPDATE of the
\* participants the SELECT returned (it waits while a participant's matching
\* call holds the row) and, if the SELECT returned a second participant, the
\* INSERT of the system message, which fails unlogged to the caller when the
\* session row is gone.  The three requests follow each other in one step.
CloseWrites(user_id) ==
    LET r == request[user_id]
        participants == {r.user1_id, r.user2_id} \ {Null}
    IN /\ r.pc = "close"
       /\ \A v \in participants : ~InFlight(v)
       /\ chat_sessions' =
             { IF s.id = r.session_id
               THEN [s EXCEPT !.status = "ended", !.ended_at = now]
               ELSE s : s \in chat_sessions }
       /\ anonymous_users' =
             [v \in DOMAIN anonymous_users |->
                 IF v \in participants
                 THEN [anonymous_users[v] EXCEPT !.is_active = FALSE, !.last_seen = now]
                 ELSE anonymous_users[v]]
       /\ IF /\ r.user2_id # Null
             /\ \E s \in chat_sessions : s.id = r.session_id
             /\ user_id \in DOMAIN anonymous_users
          THEN /\ messages' = messages \cup
                     { Message(ids.message + 1, r.session_id, user_id,
                               "Chat ended by other user", NoTime) }
               /\ ids' = [ids EXCEPT !.message = @ + 1]
          ELSE UNCHANGED << messages, ids >>
       /\ request' = [request EXCEPT ![user_id] = Request("idle", NoSession, 200)]
       /\ UNCHANGED << now, banned_users, match_queue, match_cache, txn, result,
                       response, messageRateLimit, connection >>

\* ------------------------------------------------------------- send-message

\* messageRateLimit.set(userId, limit).
SetLimit(userId, limit) ==
    [v \in DOMAIN messageRateLimit \cup {userId} |->
        IF v = userId THEN limit ELSE messageRateLimit[v]]

\* The limiter denying a sender only once the count is above the maximum.
checkRateLimitAboveMax(userId) ==
    IF userId \notin DOMAIN messageRateLimit \/ now > messageRateLimit[userId].resetTime
    THEN [allowed |-> TRUE, remaining |-> MAX_MESSAGES_PER_MINUTE - 1,
          resetTime |-> now + RATE_LIMIT_WINDOW,
          stored |-> SetLimit(userId, [count |-> 1, resetTime |-> now + RATE_LIMIT_WINDOW])]
    ELSE LET userLimit == messageRateLimit[userId]
         IN IF userLimit.count > MAX_MESSAGES_PER_MINUTE
            THEN [allowed |-> FALSE, remaining |-> 0, resetTime |-> userLimit.resetTime,
                  stored |-> messageRateLimit]
            ELSE [allowed |-> TRUE,
                  remaining |-> MAX_MESSAGES_PER_MINUTE - (userLimit.count + 1),
                  resetTime |-> userLimit.resetTime,
                  stored |-> SetLimit(userId, [userLimit EXCEPT !.count = @ + 1])]

\* Lines 22-53 of send-message.ts: what the call returns, and in stored the
\* map it leaves behind.
checkRateLimit(userId) ==
    IF userId \notin DOMAIN messageRateLimit \/ now > messageRateLimit[userId].resetTime
    THEN [allowed |-> TRUE, remaining |-> MAX_MESSAGES_PER_MINUTE - 1,
          resetTime |-> now + RATE_LIMIT_WINDOW,
          stored |-> SetLimit(userId, [count |-> 1, resetTime |-> now + RATE_LIMIT_WINDOW])]
    ELSE LET userLimit == messageRateLimit[userId]
         IN IF userLimit.count >= MAX_MESSAGES_PER_MINUTE
            THEN [allowed |-> FALSE, remaining |-> 0, resetTime |-> userLimit.resetTime,
                  stored |-> messageRateLimit]
            ELSE [allowed |-> TRUE,
                  remaining |-> MAX_MESSAGES_PER_MINUTE - (userLimit.count + 1),
                  resetTime |-> userLimit.resetTime,
                  stored |-> SetLimit(userId, [userLimit EXCEPT !.count = @ + 1])]

\* Lines 86-127: the rate check (429), then the SELECT of the session and the
\* checks on the row it returned: 404 for no such session, 400 for a session
\* that is not active, 403 for a sender who is neither participant.
SendMessage(session_id, sender_id) ==
    /\ request[sender_id].pc = "idle"
    /\ LET rateCheck == checkRateLimit(sender_id)
           found == { s \in chat_sessions : s.id = session_id }
           status == IF ~rateCheck.allowed THEN 429
                     ELSE IF found = {} THEN 404
                     ELSE LET sessionData == CHOOSE s \in found : TRUE
                          IN IF sessionData.status # "active" THEN 400
                             ELSE IF /\ sessionData.user1_id # sender_id
                                     /\ sessionData.user2_id # sender_id
                             THEN 403
                             ELSE Null
       IN /\ messageRateLimit' = rateCheck.stored
          /\ request' = [request EXCEPT ![sender_id] =
                IF status # Null THEN Request("idle", NoSession, status)
                ELSE Request("send", CHOOSE s \in found : TRUE, Null)]
    /\ UNCHANGED << now, tables, txn, result, response, connection >>

TextMessage(n, sid, sender) ==
    [id |-> n, session_id |-> sid, sender_id |-> sender, message_type |-> "text",
     content |-> "text", score |-> NoTime]

\* Lines 130-160: the INSERT, which names the session and the sender and reads
\* no status; it fails (500) only when a row it references is gone.
InsertMessage(sender_id) ==
    LET r == request[sender_id]
    IN /\ r.pc = "send"
       /\ IF /\ \E s \in chat_sessions : s.id = r.session_id
             /\ sender_id \in DOMAIN anonymous_users
          THEN /\ messages' = messages \cup
                     { TextMessage(ids.message + 1, r.session_id, sender_id) }
               /\ ids' = [ids EXCEPT !.message = @ + 1]
               /\ request' = [request EXCEPT ![sender_id] =
                                 Request("idle", NoSession, 201)]
          ELSE /\ request' = [request EXCEPT ![sender_id] =
                                 Request("idle", NoSession, 500)]
               /\ UNCHANGED << messages, ids >>
       /\ UNCHANGED << now, anonymous_users, banned_users, match_queue, match_cache,
                       chat_sessions, txn, result, response, messageRateLimit,
                       connection >>

\* ------------------------------------------------- the browser's connection

\* Lines 214-229 of useRealtimeChat.ts, on the store c: the attempts it
\* compares and the delay it computes are those of the metrics the callback
\* was created with, the attempts it increments are the store's.
attemptReconnection(c) ==
    IF c.closure >= maxReconnectAttempts
    THEN [c EXCEPT !.status = "error", !.error = "Max reconnection attempts reached"]
    ELSE [c EXCEPT !.reconnectAttempts = @ + 1, !.status = "reconnecting",
                   !.timer = TRUE]

\* Lines 443-456: the effect of a render with a session id calls that
\* render's connect(), after the previous effect's disconnect() has cleared
\* the timer; lines 232-235.  useCallback gives every connect() the
\* attemptReconnection, and with it the metrics, of the render it was made in.
Connect ==
    /\ connection' = [connection EXCEPT !.status = "connecting", !.timer = FALSE,
                                        !.closure = connection.reconnectAttempts]
    /\ UNCHANGED << now, tables, txn, result, response, request, messageRateLimit >>

\* Lines 334-338: SUBSCRIBED; setConnectionStatus('connected') and
\* resetReconnectAttempts() of the slice.
Subscribed ==
    /\ connection.status = "connecting"
    /\ connection' = [connection EXCEPT !.status = "connected",
                                        !.reconnectAttempts = 0, !.error = "none"]
    /\ UNCHANGED << now, tables, txn, result, response, request, messageRateLimit >>

\* Lines 376-393: CHANNEL_ERROR, TIMED_OUT or an exception; the slice's
\* setConnectionError, then attemptReconnection(sessionId, userId, connect).
ConnectFails ==
    /\ connection.status \in {"connecting", "connected"}
    /\ connection.reconnectAttempts < MaxReconnects
    /\ connection' = attemptReconnection(
          [connection EXCEPT !.status = "error", !.error = "Failed to connect to chat"])
    /\ UNCHANGED << now, tables, txn, result, response, request, messageRateLimit >>

\* Lines 226-228: the timer calls connectFn, the connect() that failed.
Reconnect ==
    /\ connection.timer
    /\ connection' = [connection EXCEPT !.status = "connecting", !.timer = FALSE]
    /\ UNCHANGED << now, tables, txn, result, response, request, messageRateLimit >>

\* ------------------------------------------------------ cleanup_old_sessions

\* Lines 355-357.
MarkInactive(users, t) ==
    [v \in DOMAIN users |->
        IF users[v].last_seen < t - InactiveAfter /\ users[v].is_active
        THEN [users[v] EXCEPT !.is_active = FALSE]
        ELSE users[v]]

IsActiveUser(users, v) == v \in DOMAIN users /\ users[v].is_active

\* The statement ending a session as soon as one participant is inactive.
EndAbandonedEither(sessions, users, t) ==
    { IF /\ s.status \in {"waiting", "active"}
         /\ \/ ~IsActiveUser(users, s.user1_id)
            \/ (s.user2_id # Null /\ ~IsActiveUser(users, s.user2_id))
      THEN [s EXCEPT !.status = "ended", !.ended_at = t]
      ELSE s : s \in sessions }

\* Lines 360-367.
EndAbandoned(sessions, users, t) ==
    { IF /\ s.status \in {"waiting", "active"}
         /\ \/ (s.user2_id = Null /\ ~IsActiveUser(users, s.user1_id))
            \/ (s.user2_id # Null /\ ~IsActiveUser(users, s.user1_id)
                                  /\ ~IsActiveUser(users, s.user2_id))
      THEN [s EXCEPT !.status = "ended", !.ended_at = t]
      ELSE s : s \in sessions }

\* The expiry without its status = 'waiting' condition.
ExpireQueueAnyStatus(queue, t) ==
    { IF e.expires_at <= t THEN [e EXCEPT !.status = "expired"] ELSE e : e \in queue }

\* Lines 370-372.
ExpireQueue(queue, t) ==
    { IF e.expires_at <= t /\ e.status = "waiting"
      THEN [e EXCEPT !.status = "expired"] ELSE e : e \in queue }

\* Lines 379-380.
OldUsers(users, t) == { v \in DOMAIN users : users[v].created_at < t - UserRetention }

\* The rows of match_queue and anonymous_users cleanup_old_sessions writes or
\* deletes at time t; it waits while a matching call holds one of them.
SweepWaits(t) ==
    \/ \E v \in Users :
          /\ InFlight(v)
          /\ \/ v \in OldUsers(anonymous_users, t)
             \/ MarkInactive(anonymous_users, t)[v] # anonymous_users[v]
    \/ \E e \in match_queue :
          /\ \E v \in Users : LockedBy(e.id, v)
          /\ \/ e.expires_at <= t /\ e.status = "waiting"
             \/ e.user_id \in OldUsers(anonymous_users, t)

\* The tables cleanup_old_sessions reads and writes.
Database ==
    [users |-> anonymous_users, bans |-> banned_users, queue |-> match_queue,
     cache |-> match_cache, sessions |-> chat_sessions, messages |-> messages]

\* The DELETE without the cascades of the foreign keys.
DeleteUsersNoCascade(db, gone) ==
    [db EXCEPT !.users = [v \in (DOMAIN db.users) \ gone |-> db.users[v]]]

\* Lines 379-380 with the ON DELETE CASCADE of every foreign key to
\* anonymous_users: the users' sessions, the messages they sent and the
\* messages of those sessions, their queue rows and their bans go with them.
DeleteUsers(db, gone) ==
    LET kept == { s \in db.sessions : s.user1_id \notin gone /\ s.user2_id \notin gone }
    IN [db EXCEPT !.users = [v \in (DOMAIN db.users) \ gone |-> db.users[v]],
                  !.sessions = kept,
                  !.messages = { m \in @ : /\ m.sender_id \notin gone
                                           /\ \E s \in kept : s.id = m.session_id },
                  !.queue = { e \in @ : e.user_id \notin gone },
                  !.bans = { bu \in @ : bu.user_id \notin gone }]

\* Lines 383-384; the messages of a deleted session go with it.
DeleteSessions(db, t) ==
    LET kept == { s \in db.sessions :
                    ~(s.status = "ended" /\ s.ended_at < t - SessionRetention) }
    IN [db EXCEPT !.sessions = kept,
                  !.messages = { m \in @ : \E s \in kept : s.id = m.session_id }]

\* The statements of the function body, lines 355-392, in their order.
Statements == 1..8

Statement(k, db, t) ==
    CASE k = 1 -> [db EXCEPT !.users = MarkInactive(@, t)]
      [] k = 2 -> [db EXCEPT !.sessions = EndAbandoned(@, db.users, t)]
      [] k = 3 -> [db EXCEPT !.queue = ExpireQueue(@, t)]
      [] k = 4 -> [db EXCEPT !.cache = { c \in @ : c.expires_at > t }]
      [] k = 5 -> DeleteUsers(db, OldUsers(db.users, t))
      [] k = 6 -> DeleteSessions(db, t)
      [] k = 7 -> [db EXCEPT !.messages =
                      { m \in @ : \E s \in db.sessions : s.id = m.session_id }]
      [] k = 8 -> [db EXCEPT !.queue = { e \in @ : e.user_id \in DOMAIN db.users }]

\* The statements from the k-th on, run one after the other.
RECURSIVE RunStatements(_, _, _)
RunStatements(k, db, t) ==
    IF k \notin Statements THEN db
    ELSE RunStatements(k + 1, Statement(k, db, t), t)

\* The function with the sessions ended ahead of the inactivity marking.
SweptEndsBeforeMarking(db, t) ==
    RunStatements(3, Statement(1, Statement(2, db, t), t), t)

\* Lines 351-394: what the function makes of the tables at time t.
Swept(db, t) == RunStatements(1, db, t)

\* The function commits: one transaction.
SweepTables ==
    /\ ~SweepWaits(now)
    /\ LET after == Swept(Database, now)
       IN /\ anonymous_users' = after.users
          /\ banned_users' = after.bans
          /\ match_queue' = after.queue
          /\ match_cache' = after.cache
          /\ chat_sessions' = after.sessions
          /\ messages' = after.messages

\* The function called on its own (the scheduled run).
cleanup_old_sessions ==
    /\ SweepTables
    /\ UNCHANGED << now, response, memory, ids, txn, result >>

\* --------------------------------------------------------- cleanup-sessions

\* Lines 57-80 of cleanup-sessions.ts: the details the handler puts in its
\* answer, read from the tables after the function returned.
CleanupDetails(db) ==
    [users_marked_inactive |->
         Cardinality({ v \in DOMAIN db.users : db.users[v].is_active }),
     sessions_ended |->
         Cardinality({ s \in db.sessions : s.status = "waiting" })
         + Cardinality({ s \in db.sessions : s.status = "active" }),
     users_deleted |-> 0,
     sessions_deleted |-> 0,
     messages_deleted |-> 0]

CleanupResponded(details) == [status |-> 200, details |-> details]

\* Lines 48-55: the answer to a failed call; error names the failed statement.
CleanupFailed(k) == [status |-> 500, error |-> k]

\* Lines 44-80: the handler calls the function and answers with the details.
CleanupSessions ==
    /\ SweepTables
    /\ response' = CleanupResponded(CleanupDetails(Swept(Database, now)))
    /\ UNCHANGED << now, ids, txn, result, memory >>

\* A statement of the function raises an error: the function has no
\* exception handler, so its transaction is rolled back as a whole and the
\* handler answers 500.
CleanupFails(k) ==
    /\ response' = CleanupFailed(k)
    /\ UNCHANGED << now, tables, txn, result, memory >>

\* --------------------------------------------------------------------- time

Tick(limit) ==
    /\ now + ClockStep <= limit
    /\ now' = now + ClockStep
    /\ UNCHANGED << tables, txn, result, response, memory >>

\* The clock jumps by the lifetime of a cached score.
LongTick(limit) ==
    /\ now + CacheTTL <= limit
    /\ now' = now + CacheTTL
    /\ UNCHANGED << tables, txn, result, response, memory >>

\* --------------------------------------------------------------------- Next

\* The matching core: concurrent create_or_join_session_atomic calls, the
\* sweeper and the clock.
Next ==
    \/ \E u \in Users, user_interests \in InterestChoices :
          BeginRequest(u, user_interests, MaxSessions)
    \/ \E u \in Users : LazyExpire(u)
    \/ \E u \in Users : PartialLock(u)
    \/ \E u \in Users : Join(u)
    \/ \E u \in Users : Create(u)
    \/ \E u \in Users : DeadlockAbort(u)
    \/ cleanup_old_sessions
    \/ Tick(MaxTicks * ClockStep)

Spec == Init /\ [][Next]_vars

\* The calls together with the update-activity and close-session handlers,
\* for so few calls that none of them waits for a row lock.
NextAll ==
    \/ \E u \in Users, user_interests \in InterestChoices :
          BeginRequest(u, user_interests, MaxSessionsAll)
    \/ \E u \in Users : Join(u)
    \/ \E u \in Users : Create(u)
    \/ \E u \in Users : Heartbeat(u)
    \/ \E sid \in 1..MaxSessionsAll, u \in Users : CloseSession(sid, u)
    \/ cleanup_old_sessions
    \/ Tick(MaxTicks * ClockStep)

SpecAll == Init /\ [][NextAll]_vars

\* The matching core over the lifetime of a cached score.
NextCache ==
    \/ \E u \in Users, user_interests \in InterestChoices :
          BeginRequest(u, user_interests, MaxSessions)
    \/ \E u \in Users : LazyExpire(u)
    \/ \E u \in Users : PartialLock(u)
    \/ \E u \in Users : Join(u)
    \/ \E u \in Users : Create(u)
    \/ \E u \in Users : DeadlockAbort(u)
    \/ cleanup_old_sessions
    \/ LongTick(MaxTicks * CacheTTL)

SpecCache == Init /\ [][NextCache]_vars

\* --------------------------------------------------------------- the race
\* Two callers race for the single waiting entry of a third user: the state
\* after user MaxUsers, not banned, called at time 0 and was enqueued.

Racers == Users \ {MaxUsers}

RaceInit ==
    /\ now = 0
    /\ \E user_interests \in InterestChoices :
          /\ anonymous_users = [u \in Users |->
                [is_active |-> TRUE, last_seen |-> 0,
                 interests |-> IF u = MaxUsers THEN user_interests ELSE <<>>,
                 created_at |-> 0]]
          /\ match_queue =
                { [id |-> 1, user_id |-> MaxUsers, interests |-> user_interests,
                   created_at |-> 0, expires_at |-> QueueTTL,
                   matched_at |-> NoTime, status |-> "waiting"] }
    /\ banned_users = {}
    /\ match_cache = {}
    /\ chat_sessions =
          { [id |-> 1, user1_id |-> MaxUsers, user2_id |-> Null, status |-> "waiting",
             started_at |-> NoTime, ended_at |-> NoTime, created_at |-> 0] }
    /\ messages = {}
    /\ ids = [queue |-> 1, session |-> 1, message |-> 0]
    /\ txn = [u \in Users |-> IdleTxn]
    /\ result = [u \in Users |->
          IF u = MaxUsers THEN Returned("created", 1, Null, Null) ELSE NoResult]
    /\ response = NoResponse
    /\ MemoryInit

\* Each racer calls once.
RaceNext ==
    \/ \E u \in Racers, user_interests \in InterestChoices :
          /\ result[u].action = "none"
          /\ BeginRequest(u, user_interests, MaxSessions)
    \/ \E u \in Racers : LazyExpire(u)
    \/ \E u \in Racers : Join(u)
    \/ \E u \in Racers : Create(u)
    \/ cleanup_old_sessions
    \/ Tick(MaxTicks * ClockStep)

SpecRace == RaceInit /\ [][RaceNext]_vars

\* ------------------------------------------------------------- the scorer
\* Every user calls at most once, with one of the interest lists below.

PairChoices ==
    { <<>>, <<"gaming", "music">>, <<"gaming", "travel">>, <<"knitting">>, <<"crochet">> }

NextPair ==
    \/ \E u \in Users, user_interests \in PairChoices :
          /\ result[u].action = "none"
          /\ BeginRequest(u, user_interests, MaxSessions)
    \/ \E u \in Users : Join(u)
    \/ \E u \in Users : Create(u)

SpecPair == Init /\ [][NextPair]_vars

\* ------------------------------------------------------------ the sweeper
\* The handlers around the retention limit of user 1: the state in which
\* user 1 was created at time 0, the other users were created InactiveAfter
\* minutes before user 1 reaches the retention limit, and nothing else has
\* happened.

SweepStart == UserRetention - InactiveAfter

SweepInit ==
    /\ now = SweepStart
    /\ anonymous_users = [u \in Users |->
            [is_active |-> TRUE, last_seen |-> IF u = 1 THEN 0 ELSE SweepStart,
             interests |-> <<>>, created_at |-> IF u = 1 THEN 0 ELSE SweepStart]]
    /\ banned_users = {}
    /\ match_queue = {}
    /\ match_cache = {}
    /\ chat_sessions = {}
    /\ messages = {}
    /\ ids = [queue |-> 0, session |-> 0, message |-> 0]
    /\ txn = [u \in Users |-> IdleTxn]
    /\ result = [u \in Users |-> NoResult]
    /\ response = NoResponse
    /\ MemoryInit

\* The clock passes the inactivity threshold.
SweepTick ==
    /\ now < SweepStart + MaxTicks * (InactiveAfter + 1)
    /\ now' = now + InactiveAfter + 1
    /\ UNCHANGED << tables, txn, result, response, memory >>

NextSweep ==
    \/ \E u \in Users, user_interests \in InterestChoices :
          BeginRequest(u, user_interests, MaxSessionsAll)
    \/ \E u \in Users : Join(u)
    \/ \E u \in Users : Create(u)
    \/ \E u \in Users : Heartbeat(u)
    \/ cleanup_old_sessions
    \/ CleanupSessions
    \/ \E k \in Statements : CleanupFails(k)
    \/ SweepTick

SpecSweep == SweepInit /\ [][NextSweep]_vars

\* ---------------------------------------------------------------- the bans
\* Every user calls at most once while an administrator bans users
\* (banned_users is written by administrators only), each user at most once,
\* for good or for BanLength minutes, with the clock advancing minute by
\* minute.

BanLength == MaxTicks

BanUser(u, expires_at) ==
    /\ u \in DOMAIN anonymous_users
    /\ ~\E bu \in banned_users : bu.user_id = u
    /\ banned_users' = banned_users \cup
          { [user_id |-> u, expires_at |-> expires_at, created_at |-> now] }
    /\ UNCHANGED << now, anonymous_users, match_queue, match_cache, chat_sessions,
                    messages, ids, txn, result, response, memory >>

Minute ==
    /\ now < MaxTicks
    /\ now' = now + 1
    /\ UNCHANGED << tables, txn, result, response, memory >>

BanInit == Init /\ banned_users = {}

NextBan ==
    \/ \E u \in Users, user_interests \in InterestChoices :
          /\ result[u].action = "none"
          /\ BeginRequest(u, user_interests, MaxSessions)
    \/ \E u \in Users : Join(u)
    \/ \E u \in Users : Create(u)
    \/ \E u \in Users, expires_at \in {NoTime, now + BanLength} : BanUser(u, expires_at)
    \/ Minute

SpecBan == BanInit /\ [][NextBan]_vars

\* ------------------------------------------------- requests that interleave

\* The clock passes the inactivity threshold once.
CloseTick ==
    /\ now < MaxTicks * (InactiveAfter + 1)
    /\ now' = now + InactiveAfter + 1
    /\ UNCHANGED << tables, txn, result, response, memory >>

\* Matching calls, each user's one close-session or send-message request,
\* step by step, the sweeper and the clock.
NextClose ==
    \/ \E u \in Users, user_interests \in InterestChoices :
          BeginRequest(u, user_interests, MaxSessionsAll)
    \/ \E u \in Users : Join(u)
    \/ \E u \in Users : Create(u)
    \/ \E sid \in 1..MaxSessionsAll, u \in Users :
          request[u].status = Null /\ CloseRequest(sid, u)
    \/ \E u \in Users : CloseWrites(u)
    \/ \E sid \in 1..MaxSessionsAll, u \in Users :
          request[u].status = Null /\ SendMessage(sid, u)
    \/ \E u \in Users : InsertMessage(u)
    \/ cleanup_old_sessions
    \/ CloseTick

SpecClose == BanInit /\ [][NextClose]_vars

\* --------------------------------------------------------- the rate limiter

Senders == 1..2

RateMinute ==
    /\ now < MaxMinutes
    /\ now' = now + 1
    /\ UNCHANGED << tables, txn, result, response, memory >>

\* send-message requests for a session that does not exist, and the clock.
NextRate ==
    \/ \E u \in Senders : SendMessage(1, u)
    \/ RateMinute

SpecRate == BanInit /\ [][NextRate]_vars

\* ------------------------------------------------------------- the browser

NextClient ==
    \/ Connect
    \/ Subscribed
    \/ ConnectFails
    \/ Reconnect

SpecClient == BanInit /\ [][NextClient]_vars

\* ------------------------------------------------------------------ claims

\* Both racers have returned, and both called while entry 1 was eligible.
RaceDone ==
    \A u \in Racers :
        /\ ~InFlight(u)
        /\ result[u].action # "none"
        /\ anonymous_users[u].last_seen < QueueTTL

C2_NoDoubleActive ==
    \A s1 \in chat_sessions, s2 \in chat_sessions :
        (s1.id # s2.id /\ s1.status = "active" /\ s2.status = "active")
            => Participants(s1) \cap Participants(s2) = {}

\* C3: the session id returned with 'joined' is the id of a session that
\* already existed as the matched user's waiting session.
C3_JoinsWaitingSession ==
    [][ \A u \in Users :
          (result'[u] # result[u] /\ result'[u].action = "joined")
              => \E s \in chat_sessions :
                    /\ s.id = result'[u].session_id
                    /\ s.status = "waiting"
                    /\ s.user1_id = result'[u].user ]_vars

\* C4: while an identity is banned its call never gets under way; the step in
\* which it returns reports 'Banned' and changes no table; no queue row or
\* session of the identity appears, and its interests and last_seen stay.
C4_BannedNoEffect ==
    [][ \A u \in Users :
          (~InFlight(u) /\ IsBanned(u, now)) =>
              /\ txn'[u] = txn[u]
              /\ result'[u] # result[u] =>
                    (result'[u].action = "Banned" /\ UNCHANGED tables)
              /\ \A e \in match_queue' :
                    e.user_id = u => \E f \in match_queue : f.id = e.id
              /\ \A s \in chat_sessions' :
                    u \in Participants(s) => \E s0 \in chat_sessions : s0.id = s.id
              /\ (u \in DOMAIN anonymous_users /\ u \in DOMAIN anonymous_users') =>
                    /\ anonymous_users'[u].interests = anonymous_users[u].interests
                    /\ anonymous_users'[u].last_seen = anonymous_users[u].last_seen ]_vars

\* A banned identity called, was refused, and other identities are queued.
C4_Witness ==
    \E u \in Users :
        /\ IsBanned(u, now)
        /\ result[u].action = "Banned"
        /\ \E e \in match_queue : e.status = "waiting"

\* C5: the row a call selects has its expires_at after the call's NOW(), and
\* every row marked matched was marked before its expires_at.
C5_NoExpiredClaim ==
    /\ \A u \in Users :
          txn[u].pc = "join" =>
              \A e \in match_queue :
                  e.id = txn[u].picked => e.expires_at > txn[u].now
    /\ \A e \in match_queue :
          e.status = "matched" => e.matched_at < e.expires_at

\* A call has passed over another identity's row that was still 'waiting' in
\* the table (no sweep since) with its expires_at behind the call's NOW().
C5_Witness ==
    \E u \in Users :
        /\ txn[u].pc \in {"create", "join"}
        /\ \E e \in match_queue :
              /\ e.user_id # u
              /\ e.status = "waiting"
              /\ e.expires_at <= txn[u].now
              /\ ~IsBanned(e.user_id, txn[u].now)
              /\ txn[u].picked # e.id

\* C6: with no other call in flight, the row a call selects is first among
\* the eligible rows by compatibility score of the two interest lists
\* descending, then created_at ascending.
C6_TopRanked ==
    [][ \A u \in Users :
          (/\ txn[u].pc # "join"
           /\ txn'[u].pc = "join"
           /\ \A v \in Users \ {u} : ~InFlight(v)) =>
              \A e \in match_queue, f \in match_queue :
                  (/\ e.id = txn'[u].picked
                   /\ f.user_id # u
                   /\ f.status = "waiting"
                   /\ f.expires_at > txn'[u].now
                   /\ ~IsBanned(f.user_id, txn'[u].now)) =>
                      LET se == calculate_compatibility_score(txn'[u].interests, e.interests)
                          sf == calculate_compatibility_score(txn'[u].interests, f.interests)
                      IN ~(sf > se) /\ ~(sf = se /\ f.created_at < e.created_at) ]_vars

\* C7: no identity has two queue rows in status 'waiting'.
C7_OneWaitingEntry ==
    \A u \in Users :
        Cardinality({ e \in match_queue : e.user_id = u /\ e.status = "waiting" }) <= 1

\* C8: a queue row only goes from waiting to matched or from waiting to
\* expired and then never changes; a row selected by a call in flight is
\* selected by that call alone and stays 'waiting' until the call commits.
C8_EntryStateMachine ==
    [][ /\ \A e \in match_queue, f \in match_queue' :
              f.id = e.id =>
                  \/ f = e
                  \/ e.status = "waiting" /\ f.status \in {"waiting", "matched", "expired"}
        /\ \A u \in Users, v \in Users :
              (u # v /\ txn'[u].picked # Null) => txn'[u].picked # txn'[v].picked
        /\ \A u \in Users :
              txn'[u].pc = "join" =>
                  \A f \in match_queue' :
                      f.id = txn'[u].picked => f.status = "waiting" ]_vars

\* A row was matched and an expiry pass that ran at or after that row's
\* expires_at expired another row and left the matched one.
C8_Witness ==
    \E e \in match_queue, f \in match_queue :
        /\ e.status = "matched"
        /\ f.status = "expired"
        /\ e.expires_at <= f.expires_at

\* C9: rows become matched exactly in the step that inserts the active
\* session pairing their identities: every row newly matched belongs to a
\* participant of a session inserted active in the same step, every session
\* inserted active has a newly matched row of its first participant, and no
\* row is inserted already matched.
C9_ClaimWithSession ==
    [][ LET NewlyMatched ==
                { e \in match_queue :
                    /\ e.status = "waiting"
                    /\ \E f \in match_queue' : f.id = e.id /\ f.status = "matched" }
            NewActive ==
                { s \in chat_sessions' :
                    /\ s.status = "active"
                    /\ ~\E s0 \in chat_sessions : s0.id = s.id }
        IN /\ NewlyMatched # {} =>
                 \E s \in NewActive :
                     \A e \in NewlyMatched : e.user_id \in Participants(s)
           /\ \A s \in NewActive :
                 \E e \in NewlyMatched : e.user_id = s.user1_id
           /\ ~\E e \in match_queue' :
                 e.status = "matched" /\ ~\E e0 \in match_queue : e0.id = e.id ]_vars

\* An active session and the matched row of its first participant, marked at
\* the session's start time.
C9_Witness ==
    \E s \in chat_sessions, e \in match_queue :
        /\ s.status = "active"
        /\ e.status = "matched"
        /\ e.user_id = s.user1_id
        /\ e.matched_at = s.started_at

\* C10: no call waits for a row lock held by another call.
C10_NeverWaits == \A u \in Users : ~Blocked(u)

\* C18: a close-session request by a participant for a session that is
\* already ended (its row still there) is answered 200 and changes no table.
C18_CloseIdempotent ==
    [][ \A s \in chat_sessions :
          (/\ response' # response
           /\ response'.session_id = s.id
           /\ response'.user_id \in Participants(s)
           /\ s.status = "ended") =>
              (response'.status = 200 /\ UNCHANGED tables) ]_vars

\* A participant's request for an ended session was answered 200 without
\* ending anything.
C18_Witness ==
    /\ response.status = 200
    /\ ~response.closed
    /\ \E s \in chat_sessions :
          /\ s.id = response.session_id
          /\ s.status = "ended"
          /\ response.user_id \in Participants(s)

\* C19: a close-session request for a session id with no row is answered 404,
\* one by an identity that is no participant of the session is answered 403,
\* and neither changes a table.
C19_CloseRefusals ==
    [][ response' # response =>
          /\ (~\E s \in chat_sessions : s.id = response'.session_id) =>
                (response'.status = 404 /\ UNCHANGED tables)
          /\ \A s \in chat_sessions :
                (s.id = response'.session_id /\ response'.user_id \notin Participants(s)) =>
                    (response'.status = 403 /\ UNCHANGED tables) ]_vars

\* A request by a non-participant for a session that is not ended was refused.
C19_Witness ==
    /\ response.status = 403
    /\ \E s \in chat_sessions :
          /\ s.id = response.session_id
          /\ s.status # "ended"
          /\ response.user_id \notin Participants(s)

\* C20: no call selects a queue row of an identity that close-session left
\* inactive (is_active false and last_seen at the end of its ended session).
C20_NoRepairWhileInactive ==
    [][ \A u \in Users :
          (txn[u].pc # "join" /\ txn'[u].pc = "join") =>
              \A m \in DOMAIN anonymous_users :
                  m = txn'[u].matched =>
                      ~ /\ ~anonymous_users[m].is_active
                        /\ \E s \in chat_sessions :
                              /\ m \in Participants(s)
                              /\ s.status = "ended"
                              /\ s.ended_at = anonymous_users[m].last_seen ]_vars

\* C11: every call returns 'joined', 'created' or the Banned error, never
\* another error.
C11_ThreeOutcomes ==
    \A u \in Users : result[u].action \in {"none", "joined", "created", "Banned"}

\* C12: a call takes the no-match branch exactly when its scan has no row to
\* select; the step returning 'created' inserts one queue row of the caller
\* (waiting, expires_at = created_at + 5 minutes) and one waiting session of
\* the caller alone, whose id it returns, and changes no other session, message
\* or queue row except rows it expires.
C12_CreatedInsertsOneEach ==
    [][ \A u \in Users :
          /\ (txn[u].pc # "create" /\ txn'[u].pc = "create") =>
                Candidates(u, txn'[u]) = {}
          /\ (txn[u].pc # "join" /\ txn'[u].pc = "join") =>
                Candidates(u, txn'[u]) # {}
          /\ (result'[u] # result[u] /\ result'[u].action = "created") =>
                LET newq == { e \in match_queue' : ~\E f \in match_queue : f.id = e.id }
                    news == { x \in chat_sessions' : ~\E y \in chat_sessions : y.id = x.id }
                IN /\ Cardinality(newq) = 1
                   /\ \A e \in newq :
                         /\ e.user_id = u
                         /\ e.status = "waiting"
                         /\ e.created_at = txn[u].now
                         /\ e.expires_at = e.created_at + QueueTTL
                   /\ Cardinality(news) = 1
                   /\ \A x \in news :
                         /\ x.id = result'[u].session_id
                         /\ x.status = "waiting"
                         /\ x.user1_id = u
                         /\ x.user2_id = Null
                   /\ chat_sessions \subseteq chat_sessions'
                   /\ messages' = messages
                   /\ \A e \in match_queue :
                         \/ e \in match_queue'
                         \/ /\ e.status = "waiting"
                            /\ e.expires_at <= txn[u].now
                            /\ [e EXCEPT !.status = "expired"] \in match_queue' ]_vars

\* A call returned 'created': its waiting row and waiting session are there,
\* next to a row of another identity that it expired.
C12_Witness ==
    \E u \in Users, e \in match_queue, x \in chat_sessions, f \in match_queue :
        /\ result[u].action = "created"
        /\ x.id = result[u].session_id
        /\ x.status = "waiting"
        /\ e.user_id = u
        /\ e.status = "waiting"
        /\ f.user_id # u
        /\ f.status = "expired"
        /\ f.expires_at <= e.created_at

\* C16: the row a call selects is the one it selects with an empty cache: the
\* oldest of its candidates, and selected without error, which with an empty
\* cache needs the matched identity to have a single queue row.
C16_ColdEqualsWarm ==
    [][ \A u \in Users :
          (txn[u].pc # "join" /\ txn'[u].pc = "join") =>
              \A p \in match_queue :
                  p.id = txn'[u].picked =>
                      /\ \A e \in Candidates(u, txn'[u]) : p.created_at <= e.created_at
                      /\ Cardinality(QueueRowsOf(p.user_id)) <= 1 ]_vars

RuleTagScore(i1, i2) ==
    IF i1 = i2 THEN 10
    ELSE IF /\ i1 \in DOMAIN interest_categories
            /\ i2 \in DOMAIN interest_categories
            /\ interest_categories[i1] = interest_categories[i2] THEN 5
    ELSE 1

RECURSIVE RuleSum(_, _, _, _)
RuleSum(a, b, i, j) ==
    IF i > Len(a) THEN 0
    ELSE IF j > Len(b) THEN RuleSum(a, b, i + 1, 1)
    ELSE RuleTagScore(a[i], b[j]) + RuleSum(a, b, i, j + 1)

\* C14: the score of any two users' interest lists is the sum over the cross
\* pairs of tags of 10 for identical tags, 5 for tags of one category and 1
\* otherwise, tags without a category included.
C14_ScoreByRule ==
    \A u \in DOMAIN anonymous_users, v \in DOMAIN anonymous_users :
        calculate_compatibility_score(anonymous_users[u].interests,
                                      anonymous_users[v].interests)
            = RuleSum(anonymous_users[u].interests, anonymous_users[v].interests, 1, 1)

\* The scenario of C15, for the score it is said to report: from an empty
\* pool x calls with [gaming, music] and is enqueued; then y calls with
\* [gaming, travel], selects x's row, returns 'joined' and reports the score.
ScenarioReports(score) ==
    \A x \in Users : \A y \in Users \ {x} :
        /\ (/\ ids.session = 0
            /\ \A v \in Users \ {x} : ~InFlight(v)
            /\ txn[x].pc = "create"
            /\ txn'[x].pc = "idle") => result'[x].action = "created"
        /\ (/\ ids.queue = 1 /\ ids.session = 1
            /\ \A v \in Users : ~InFlight(v)
            /\ result[x].action = "created"
            /\ anonymous_users[x].interests = <<"gaming", "music">>
            /\ txn'[y].pc # "idle"
            /\ txn'[y].interests = <<"gaming", "travel">>) =>
                (txn'[y].pc = "join" /\ txn'[y].matched = x)
        /\ (/\ ids.queue = 1 /\ ids.session = 1
            /\ anonymous_users[x].interests = <<"gaming", "music">>
            /\ txn[y].pc = "join"
            /\ txn[y].matched = x
            /\ txn[y].interests = <<"gaming", "travel">>
            /\ txn'[y].pc = "idle") =>
                /\ result'[y].action = "joined"
                /\ \E m \in messages' :
                      m.session_id = result'[y].session_id /\ m.score = score
                /\ \A m \in messages' :
                      (m.session_id = result'[y].session_id /\ m.score # NoTime)
                          => m.score = score

C17_SymmetricLookup ==
    \A a \in Users, b \in Users :
        \A t \in {now} \cup { txn[u].now : u \in { v \in {a, b} : txn[v].pc = "expire" } } :
            /\ CacheRows(a, b, t) = CacheRows(b, a, t)
            /\ get_cached_compatibility_score(a, b, t) = get_cached_compatibility_score(b, a, t)
            /\ Cardinality(CacheRows(a, b, t)) <= 1

\* The table holds a row for each order of a pair, one of them expired, and
\* the lookup in the order of the expired row returns the other row's score.
C17_Witness ==
    \E c \in match_cache, d \in match_cache :
        /\ c.user1_id = d.user2_id
        /\ c.user2_id = d.user1_id
        /\ c.expires_at <= now
        /\ d.expires_at > now
        /\ get_cached_compatibility_score(c.user1_id, c.user2_id, now)
              = {d.compatibility_score}

\* C21: running cleanup_old_sessions twice in immediate succession, with no
\* time advance and no other operation in between, leaves the tables after
\* the second run as they were after the first: whatever state a run starts
\* from, the tables it leaves are a fixed point of the function at that time.
C21_SweepIdempotent ==
    [][SweepTables /\ now' = now => Swept(Database', now) = Database']_vars

\* A run that marked a user inactive, ended a session and deleted a user.
C21_Witness ==
    /\ response.status = 200
    /\ "details" \in DOMAIN response
    /\ \E s \in chat_sessions : s.status = "ended" /\ s.ended_at = now
    /\ \E v \in DOMAIN anonymous_users : ~anonymous_users[v].is_active
    /\ 1 \notin DOMAIN anonymous_users

\* What a run of the function at time t changes in the tables db: the users
\* it marks inactive, the sessions it ends, and the rows it deletes.
Affected(db, t) ==
    LET after == Swept(db, t)
    IN [users_marked_inactive |->
            Cardinality({ v \in DOMAIN db.users :
                            MarkInactive(db.users, t)[v] # db.users[v] }),
        sessions_ended |->
            Cardinality({ s \in db.sessions :
                            s \notin EndAbandoned(db.sessions,
                                                  MarkInactive(db.users, t), t) }),
        users_deleted |-> Cardinality(DOMAIN db.users) - Cardinality(DOMAIN after.users),
        sessions_deleted |-> Cardinality(db.sessions) - Cardinality(after.sessions),
        messages_deleted |-> Cardinality(db.messages) - Cardinality(after.messages)]

\* C22: the details the cleanup-sessions handler answers with are the counts
\* of the records its run affected: users marked inactive, sessions ended,
\* and users, sessions and messages deleted (all 0 for a run that changes
\* nothing).
C22_SummaryCountsAffected ==
    [][CleanupSessions => response'.details = Affected(Database, now)]_vars

\* C23: every active session has both participant ids set and distinct, and
\* the second participant of a session, once assigned, is never changed by
\* any later operation while the session's row exists.
C23_ActivePair ==
    [][ /\ \A s \in chat_sessions' :
             s.status = "active" =>
                 /\ s.user1_id # Null
                 /\ s.user2_id # Null
                 /\ s.user1_id # s.user2_id
        /\ \A s \in chat_sessions : \A s2 \in chat_sessions' :
             (s2.id = s.id /\ s.user2_id # Null) => s2.user2_id = s.user2_id
      ]_vars

\* A session was made active by a call, and a later call committed while it
\* was still there.
C23_Witness ==
    \E s \in chat_sessions :
        /\ s.status = "active"
        /\ s.user2_id # Null
        /\ ids.session > s.id

\* C24: a call never claims an entry whose user is banned when the call
\* scans the queue (a ban with no expiry or with an expiry still ahead),
\* whatever the entry's rank; and an entry whose user's ban has expired is
\* eligible again: a call that finds such an entry waiting, unexpired and
\* not locked by another call does not take the no-match branch.
C24_BannedNeverClaimed ==
    [][\A u \in Users :
          /\ (txn[u].pc = "idle" /\ txn'[u].pc = "join")
                => ~IsBanned(txn'[u].matched, now)
          /\ (txn[u].pc = "idle" /\ txn'[u].pc = "create")
                => ~\E e \in match_queue :
                       /\ e.user_id # u
                       /\ e.status = "waiting"
                       /\ e.expires_at > now
                       /\ ~LockedByOther(e.id, u)
                       /\ \A bu \in banned_users :
                             bu.user_id = e.user_id =>
                                 (bu.expires_at # NoTime /\ bu.expires_at <= now)
      ]_vars

\* User x, banned for good, and user z, banned for a while, both wait; after
\* z's ban expired a call passed over x's entry, which was the first to be
\* inserted, and claimed z's.
C24_Witness ==
    \E x \in Users, z \in Users, y \in Users :
        /\ result[y].action = "joined"
        /\ result[y].user = z
        /\ \E s \in chat_sessions, ex \in match_queue, ez \in match_queue,
              bx \in banned_users, bz \in banned_users :
              /\ s.id = result[y].session_id
              /\ ex.user_id = x /\ ex.status = "waiting" /\ ex.expires_at > s.started_at
              /\ ez.user_id = z /\ ez.id = result[y].entry
              /\ ex.id < ez.id
              /\ bx.user_id = x /\ bx.expires_at = NoTime /\ bx.created_at < s.started_at
              /\ bz.user_id = z /\ bz.expires_at # NoTime
              /\ ez.created_at < bz.expires_at
              /\ bz.expires_at <= s.started_at

\* The rows a call of u at time t may claim whatever the interests: waiting,
\* unexpired rows of other users who are not banned.
Eligible(u, t) ==
    { e \in match_queue :
        /\ e.user_id # u
        /\ e.status = "waiting"
        /\ e.expires_at > t
        /\ ~IsBanned(e.user_id, t) }

\* C25: eligibility does not depend on interest overlap.  A call of a user
\* who is not banned, made with no other call in flight while some row is
\* eligible, selects a row and goes on to return 'joined', even if every
\* eligible row scores 0 against the caller's interests; and when every
\* eligible row scores 0 the selected row is an oldest eligible row.
C25_EligibleWithoutOverlap ==
    [][\A u \in Users :
          (/\ txn[u].pc = "idle"
           /\ txn'[u].pc # "idle" \/ result'[u] # result[u]
           /\ \A v \in Users \ {u} : ~InFlight(v)
           /\ ~IsBanned(u, now)
           /\ Eligible(u, now) # {}) =>
              /\ txn'[u].pc = "join"
              /\ (\A e \in Eligible(u, now) :
                     calculate_compatibility_score(txn'[u].interests, e.interests) = 0)
                    => \A e \in Eligible(u, now), f \in Eligible(u, now) :
                           e.id = txn'[u].picked => e.created_at <= f.created_at
      ]_vars

\* C26: a run of cleanup_old_sessions ends a waiting or active session exactly
\* when all its participants are inactive once the run has marked the users
\* inactive: after the run no waiting or active session is left with all its
\* participants inactive, and no session the run ended had a participant who
\* was still active after the marking.
C26_EndsIffAllInactive ==
    [][(SweepTables /\ now' = now) =>
          /\ \A s \in chat_sessions' :
                s.status \in {"waiting", "active"} =>
                    \E v \in Participants(s) : IsActiveUser(anonymous_users', v)
          /\ \A s \in chat_sessions : \A s2 \in chat_sessions' :
                (s2.id = s.id /\ s.status \in {"waiting", "active"}
                              /\ s2.status = "ended") =>
                    \A v \in Participants(s) :
                        ~IsActiveUser(MarkInactive(anonymous_users, now), v)
      ]_vars

\* A run ended the waiting session of a user it marked inactive and left
\* active the session the same user shares with a user seen since.
C26_Witness ==
    \E s \in chat_sessions, a \in chat_sessions :
        /\ s.status = "ended" /\ s.ended_at = now
        /\ ~IsActiveUser(anonymous_users, s.user1_id)
        /\ a.status = "active"
        /\ a.user1_id = s.user1_id
        /\ IsActiveUser(anonymous_users, a.user2_id)

\* The users whose last activity (heartbeat or call) is within the retention
\* limit at time t.
RecentlySeen(t) ==
    { v \in DOMAIN anonymous_users : anonymous_users[v].last_seen >= t - UserRetention }

\* C27: a run of cleanup_old_sessions deletes a user only when the user's
\* last activity is further back than the retention limit; a user seen within
\* the limit stays, and so do that user's sessions, messages and queue rows.
C27_DeletesIdleOnly ==
    [][(SweepTables /\ now' = now) =>
          \A v \in RecentlySeen(now) :
              /\ v \in DOMAIN anonymous_users'
              /\ \A s \in chat_sessions :
                    v \in Participants(s) => \E s2 \in chat_sessions' : s2.id = s.id
              /\ \A m \in messages : m.sender_id = v => m \in messages'
              /\ \A e \in match_queue :
                    e.user_id = v => \E e2 \in match_queue' : e2.id = e.id
      ]_vars

\* The statements from the k-th on run one after the other, the failed one
\* left out.
RECURSIVE RunStatementsExcept(_, _, _, _)
RunStatementsExcept(failed, k, db, t) ==
    IF k \notin Statements THEN db
    ELSE RunStatementsExcept(failed, k + 1,
                             IF k = failed THEN db ELSE Statement(k, db, t), t)

\* C28: the statements of cleanup_old_sessions are independent and
\* best-effort: when one of them fails, the effects of the statements before
\* it are kept and the statements after it still run.
C28_BestEffortSteps ==
    [][\A k \in Statements :
          (response' = CleanupFailed(k) /\ response' # response) =>
              Database' = RunStatementsExcept(k, 1, Database, now)]_vars

\* C29: after every run of cleanup_old_sessions no queue row refers to a user
\* who does not exist, no session refers to a deleted user, and no message
\* refers to a session that does not exist.
C29_NoDanglingReferences ==
    [][(SweepTables /\ now' = now) =>
          /\ \A e \in match_queue' : e.user_id \in DOMAIN anonymous_users'
          /\ \A s \in chat_sessions' : Participants(s) \subseteq DOMAIN anonymous_users'
          /\ \A m \in messages' : \E s \in chat_sessions' : s.id = m.session_id
      ]_vars

\* A run deleted user 1 together with a queue row, a session and a message.
C29_Witness ==
    /\ 1 \notin DOMAIN anonymous_users
    /\ ids.queue > Cardinality(match_queue)
    /\ ids.session > Cardinality(chat_sessions)
    /\ ids.message > Cardinality(messages)

\* The rows of the cache for the pair, in either order, that have not expired
\* at time t.
LiveRows(a, b, t) ==
    { c \in match_cache :
        /\ {c.user1_id, c.user2_id} = {a, b}
        /\ c.expires_at > t }

\* C30: a cache lookup never returns a row whose expiry has passed at the
\* call's NOW(), whether or not cleanup_old_sessions has deleted the row; a
\* hit gives the stored score and nothing is calculated or written; a miss
\* for the pair of the call and the user it selected calculates the score of
\* the two interest lists and, when the call commits, stores it for the pair
\* with expires_at = NOW() + 1 hour.
C30_CacheLookup ==
    [][\A u \in Users :
          /\ (txn[u].pc \in {"idle", "expire"} /\ txn'[u].pc = "join") =>
                LET t == txn'[u]
                    e == CHOOSE q \in match_queue : q.id = t.picked
                IN IF LiveRows(u, t.matched, t.now) = {}
                   THEN t.cache =
                          { [user2_id |-> t.matched,
                             score |-> calculate_compatibility_score(t.interests,
                                                                     e.interests)] }
                   ELSE t.cache = {}
          /\ (txn[u].pc = "join" /\ txn'[u].pc = "idle" /\ result'[u].action = "joined") =>
                IF txn[u].cache = {}
                THEN match_cache' = match_cache
                ELSE /\ \A w \in txn[u].cache :
                           [user1_id |-> u, user2_id |-> w.user2_id,
                            compatibility_score |-> w.score,
                            expires_at |-> txn[u].now + CacheTTL] \in match_cache'
                     /\ \A c \in match_cache' \ match_cache :
                           c.user1_id = u /\ c.user2_id = txn[u].matched
      ]_vars

\* A call found only an expired row for its pair, which cleanup_old_sessions
\* had not deleted, and stored the score anew; the expired row of the
\* opposite order is still in the table.
C30_Witness ==
    \E c \in match_cache, d \in match_cache :
        /\ c.user1_id = d.user2_id
        /\ c.user2_id = d.user1_id
        /\ c.expires_at <= now
        /\ d.expires_at = now + CacheTTL
        /\ result[d.user1_id].action = "joined"
        /\ result[d.user1_id].user = d.user2_id

\* C31: a call that returns 'joined' inserts exactly one system message
\* announcing the connection in the session it returns, and a second system
\* message reporting the compatibility score exactly when the score it
\* calculated for the two users is positive; a call that returns 'created'
\* or fails inserts no message.
C31_JoinMessages ==
    [][\/ messages' \subseteq messages
       \/ \E u \in Users :
             /\ txn[u].pc = "join"
             /\ result'[u].action = "joined"
             /\ LET new == messages' \ messages
                    hello == { m \in new : m.content = "Connected to chat!" }
                    report == { m \in new : m.content = "Compatibility score: " }
                    score == calculate_compatibility_score(
                                 txn[u].interests,
                                 anonymous_users[result'[u].user].interests)
                IN /\ messages \subseteq messages'
                   /\ new = hello \cup report
                   /\ \A m \in new : /\ m.session_id = result'[u].session_id
                                     /\ m.message_type = "system"
                   /\ Cardinality(hello) = 1
                   /\ IF score > 0
                      THEN Cardinality(report) = 1 /\ \A m \in report : m.score = score
                      ELSE report = {}
      ]_vars

\* One call joined with a score message, another without.
C31_Witness ==
    \E u \in Users, v \in Users :
        /\ result[u].action = "joined"
        /\ result[v].action = "joined"
        /\ Cardinality({ m \in messages : m.session_id = result[u].session_id }) = 2
        /\ Cardinality({ m \in messages : m.session_id = result[v].session_id }) = 1

\* C32: the interests of a queue row are a snapshot taken when the row is
\* inserted: no later step changes them, and the compatibility score a call
\* reports for a pairing is the score of the caller's interests against the
\* interests stored in the row it claimed.
C32_InterestSnapshot ==
    [][/\ \A e \in match_queue : \A e2 \in match_queue' :
             e2.id = e.id => e2.interests = e.interests
       /\ \A u \in Users :
             (txn[u].pc = "join" /\ result'[u].action = "joined"
                                 /\ messages' # messages) =>
                 LET e == CHOOSE q \in match_queue : q.id = txn[u].picked
                     snapshot_score ==
                         calculate_compatibility_score(txn[u].interests, e.interests)
                     report == { m \in messages' \ messages :
                                   m.content = "Compatibility score: " }
                 IN IF snapshot_score > 0
                    THEN \E m \in report : m.score = snapshot_score
                    ELSE report = {}
      ]_vars

C34_NoWaitingSessionOncePaired ==
    \A s \in chat_sessions, w \in chat_sessions :
        (s.status = "active" /\ w.status = "waiting") => w.user1_id \notin Participants(s)

\* C35: every queue row that is waiting and not past its expiry belongs to a
\* user who has a waiting session that has not been ended; once close-session
\* or cleanup_old_sessions has ended a user's waiting session, the user's
\* row can no longer be claimed.
C35_WaitingRowHasWaitingSession ==
    \A e \in match_queue :
        (e.status = "waiting" /\ e.expires_at > now) =>
            \E s \in chat_sessions : s.user1_id = e.user_id /\ s.status = "waiting"

ChatEnded(msgs, sid) ==
    { m \in msgs : m.session_id = sid /\ m.content = "Chat ended by other user" }

\* C36: 'ended' is terminal: a step leaves the status and the ended_at of
\* every session that is ended as they are, whatever close-session requests,
\* matching calls and sweeper runs interleave, and the close-session requests
\* for one session insert at most one 'Chat ended by other user' message.
C36_EndedIsTerminal ==
    [][ /\ \A s \in chat_sessions : \A s2 \in chat_sessions' :
              (s.status = "ended" /\ s2.id = s.id) =>
                  (s2.status = "ended" /\ s2.ended_at = s.ended_at)
        /\ \A s2 \in chat_sessions' : Cardinality(ChatEnded(messages', s2.id)) <= 1 ]_vars

\* C37: a text message is inserted only while its session is active and its
\* sender is one of the session's participants; none is inserted into a
\* session that close-session or the sweeper has ended.
C37_TextOnlyIntoActive ==
    [][ \A m \in messages' \ messages :
            m.message_type = "text" =>
                \E s \in chat_sessions :
                    /\ s.id = m.session_id
                    /\ s.status = "active"
                    /\ m.sender_id \in Participants(s) ]_vars

\* C38: a send-message request leaves its sender's count at no more than
\* MAX_MESSAGES_PER_MINUTE; a request denied with 429 leaves the map as it
\* was; the first request after the reset time stores count 1 and a new reset
\* time; any other allowed request adds one to the count of the same window,
\* so the count is the number of requests allowed since the window's start.
C38_RateLimited ==
    [][ \A u \in Senders :
          SendMessage(1, u) =>
            /\ messageRateLimit'[u].count <= MAX_MESSAGES_PER_MINUTE
            /\ request'[u].status = 429 <=>
                  /\ u \in DOMAIN messageRateLimit
                  /\ now <= messageRateLimit[u].resetTime
                  /\ messageRateLimit[u].count = MAX_MESSAGES_PER_MINUTE
            /\ request'[u].status = 429 => messageRateLimit' = messageRateLimit
            /\ (u \in DOMAIN messageRateLimit /\ now > messageRateLimit[u].resetTime) =>
                  messageRateLimit'[u] =
                      [count |-> 1, resetTime |-> now + RATE_LIMIT_WINDOW]
            /\ ( /\ request'[u].status # 429
                 /\ u \in DOMAIN messageRateLimit
                 /\ now <= messageRateLimit[u].resetTime ) =>
                  messageRateLimit'[u] =
                      [messageRateLimit[u] EXCEPT !.count = @ + 1] ]_vars

\* A sender denied at the full count at the very minute of its reset time,
\* next to a sender whose window has just begun.
C38_Witness ==
    \E u \in Senders, v \in Senders :
        /\ u \in DOMAIN messageRateLimit /\ v \in DOMAIN messageRateLimit
        /\ request[u].status = 429
        /\ messageRateLimit[u].count = MAX_MESSAGES_PER_MINUTE
        /\ messageRateLimit[u].resetTime = now
        /\ messageRateLimit[v].count = 1
        /\ messageRateLimit[v].resetTime = now + RATE_LIMIT_WINDOW
        /\ now = MaxMinutes

\* C39: a reconnect is scheduled only while fewer than maxReconnectAttempts
\* have been scheduled since the last successful connection, which is what
\* the store's reconnectAttempts counts.
C39_ReconnectsBounded ==
    [][ (connection'.timer /\ ~connection.timer) =>
            connection.reconnectAttempts < maxReconnectAttempts ]_vars

====
